---- MODULE Spec2Model ----
(***************************************************************************)
(* Liquidity Matrix Bot v2 (src/bot.py): sweep detection on 15m candles,   *)
(* second-touch confirmation on 5m candles, trade-plan construction, the   *)
(* per-symbol analysis and the two scheduled jobs.                         *)
(*                                                                         *)
(* Prices are fixed-point integers: one tick is 0.001 price units, the     *)
(* resolution of round(x, 3) in the source.  Volumes are integers.  The    *)
(* source computes in binary floating point: a comparison of computed      *)
(* values that are equal in exact arithmetic, or a rounding of a computed  *)
(* value that lies exactly between two results, can fall either way, and   *)
(* fpTie is that choice.  Comparisons of parsed values are exact.          *)
(***************************************************************************)
EXTENDS Integers, Sequences, FiniteSets, TLC

VARIABLES
    candles15,   \* the 15m series handed to the function under check
    candles5,    \* the 5m series handed to the function under check
    lookback,    \* the lookback argument of the last detect_sweep_and_green call
    detection,   \* the dict returned by the last detect_sweep_and_green call
    sec,         \* the dict returned by the last detect_second_touch_and_confirmation call
    pad5,        \* how many filler candles the 5m series holds
    plan,        \* the value returned by the last trade-plan builder call
    fpTie,       \* how a float comparison or rounding falls when its two sides
                 \* are equal in exact arithmetic (TRUE: the left side, or the
                 \* rounded value, comes out larger)
    symbol,      \* the symbol of the last get_and_analyze call
    resp15,      \* what the provider answered to its 15m request
    resp5,       \* what the provider answered to its 5m request
    analysis,    \* the outcome of the last get_and_analyze call
    message,     \* the text format_plan_message made of it
    pc,          \* where each scheduled job's thread stands
    x_res,       \* each job's local x (the XAU outcome)
    b_res,       \* each job's local b (the BTC outcome)
    due,         \* the job whose cron trigger fires next
    fires,       \* how many triggers have fired
    alerts,      \* how often a plan message was handed to the sink, per
                 \* (symbol, time of the sweep candle)
    escaped,     \* the jobs out of which an exception has propagated
    handlerSendFailed  \* a send inside an except handler has failed

dataVars == <<candles15, candles5, lookback, detection, sec, pad5, plan>>
analyzeVars == <<symbol, resp15, resp5, analysis, message>>
jobVars == <<pc, x_res, b_res, due, fires, alerts, escaped, handlerSendFailed>>

vars == <<dataVars, fpTie, analyzeVars, jobVars>>

----------------------------------------------------------------------------
(* Price grid and configuration (src/bot.py lines 31-40).                  *)

TicksPerUnit == 1000

\* Bounds of the model.
MaxLen15 == 6
MaxLen5 == 4
MaxFires == 3

Lookbacks == {1, 2, 3, 4}

Max(a, b) == IF a >= b THEN a ELSE b
Min(a, b) == IF a <= b THEN a ELSE b

----------------------------------------------------------------------------
(* Candles: the dicts parse_candles builds.                                *)

Mk(o, h, l, c, v) ==
    [datetime |-> 0, open |-> o, high |-> h, low |-> l, close |-> c, volume |-> v]

NoCandle == [datetime |-> -1, open |-> 0, high |-> 0, low |-> 0, close |-> 0, volume |-> 0]

\* The candle invariant of the data model: high >= max(open, close),
\* low <= min(open, close).
CandleOK(c) ==
    /\ c.high >= Max(c.open, c.close)
    /\ c.low <= Min(c.open, c.close)

P15 == 100 * TicksPerUnit

\* 15m candle shapes the detector is exercised on.
GreenHigh   == Mk(P15 + 40, P15 + 80, P15 + 40, P15 + 80, 0)    \* green, low 40
FlatCandle  == Mk(P15 + 20, P15 + 20, P15 + 20, P15 + 20, 0)    \* zero range
SweepGood   == Mk(P15 + 60, P15 + 100, P15, P15 + 80, 0)        \* long lower wick
SweepBody   == Mk(P15 + 50, P15 + 100, P15, P15 + 10, 0)        \* red, short lower wick
SweepEdge   == Mk(P15 + 35, P15 + 100, P15, P15 + 35, 0)        \* wick ratio exactly 0.35
RedHigh     == Mk(P15 + 90, P15 + 90, P15 + 50, P15 + 50, 0)     \* red, low 50

Alphabet15 == {GreenHigh, FlatCandle, SweepGood, SweepBody, SweepEdge}

----------------------------------------------------------------------------
(* detect_sweep_and_green (src/bot.py lines 103-126).                      *)

\* line 114: open - low when open > close, else close - low.
LowerWick(c) == IF c.open > c.close THEN c.open - c.low ELSE c.close - c.low

\* A variant of the ratio test without the zero-range guard.
WickRatioOver_unguarded(c) == LowerWick(c) * 100 >= 35 * (c.high - c.low)

\* lines 115-116: lower_wick / rng > 0.35, rng replaced by 1e-6 when it is
\* not positive.  lower_wick / 1e-6 > 0.35 is lower_wick (price) > 3.5e-7,
\* which on the tick grid is lower_wick >= 1 tick.
WickRatioOver(c) ==
    LET rng == c.high - c.low
    IN  IF rng > 0 THEN \/ LowerWick(c) * 100 > 35 * rng
                        \/ LowerWick(c) * 100 = 35 * rng /\ fpTie
                   ELSE LowerWick(c) > 0

\* line 112
LocalLow(w, i) == w[i].low < w[i - 1].low /\ w[i].low < w[i + 1].low

\* lines 112-119: window index i (1-based) qualifies.
Qualifies(w, i) ==
    /\ LocalLow(w, i)
    /\ WickRatioOver(w[i])
    /\ w[i + 1].close > w[i + 1].open

MinOf(S) == CHOOSE x \in S : \A y \in S : x <= y
MaxOf(S) == CHOOSE x \in S : \A y \in S : x >= y

\* A variant of the window that is one candle short.
Window_short(cs, lb) == SubSeq(cs, Len(cs) - lb + 1, Len(cs))

\* line 110: candles_15m[-(lookback+1):]
Window(cs, lb) == SubSeq(cs, Len(cs) - lb, Len(cs))

NoDetection(why) ==
    [signal |-> FALSE, reason |-> why, sweep_candle |-> NoCandle,
     confirm_candle |-> NoCandle, sweep_idx_in_15m |-> -1]

\* The loop of lines 111-125 returns at the first qualifying index.
\* Python's indices are 0-based: window[i] is w[i + 1] here, and
\* sweep_idx_in_15m is reported 0-based as in the source.
detect_sweep_and_green(cs, lb) ==
    IF Len(cs) < lb + 2 THEN NoDetection("not_enough_data")
    ELSE LET w == Window(cs, lb)
             hits == {i \in 2..(Len(w) - 1) : Qualifies(w, i)}
         IN  IF hits = {} THEN NoDetection("no_sweep")
             ELSE LET i == MinOf(hits)
                  IN  [signal |-> TRUE, reason |-> "",
                       sweep_candle |-> w[i],
                       confirm_candle |-> w[i + 1],
                       sweep_idx_in_15m |-> Len(cs) - (lb + 1) + (i - 1)]

----------------------------------------------------------------------------
(* detect_second_touch_and_confirmation (src/bot.py lines 128-202).        *)

RETEST_TOUCH_ALLOWANCE == 2
CONFIRM_VOLUME_MULT == 1
\* line 144: candles_5m[-60:]
TOUCH_WINDOW == 60
\* line 190: candles_5m[-6:]
CONFIRM_WINDOW == 6
\* lines 145, 154: zone_bottom - 0.5, in ticks
TOUCH_SLOP == 500
\* lines 173, 184, 200: cand["open"] + 0.02, in ticks
ENTRY_OFFSET == 20

NoSec(why) == [ok |-> FALSE, entry |-> 0, reason |-> why, confirm_candle |-> NoCandle]

\* lines 145, 154
Touches(c, zone_top, zone_bottom) ==
    c.low <= zone_top /\ c.low >= zone_bottom - TOUCH_SLOP

\* lines 168-169, 195-196
Engulfing(prev, cand) ==
    /\ prev.close < prev.open
    /\ cand.close > cand.open
    /\ cand.close > prev.open
    /\ cand.open < prev.close

\* lines 172, 183, 198: avg == 0 or volume >= avg * CONFIRM_VOLUME_MULT, with
\* avg = sum2 / 2 (sum2 the sum of the two volumes averaged).
VolumeOK(cand, sum2) ==
    sum2 = 0 \/ 2 * cand.volume >= sum2 * CONFIRM_VOLUME_MULT

\* A variant without the test of the candle's low against the zone top.
WickRejection_anywhere(cand, zone_top) ==
    /\ \/ 2 * (cand.close - cand.low) > cand.high - cand.low
       \/ 2 * (cand.close - cand.low) = cand.high - cand.low /\ fpTie
    /\ cand.close > cand.open

\* lines 176-179: the wick-rejection test of the touched branch.
WickRejection(cand, zone_top) ==
    /\ cand.low <= zone_top
    /\ \/ 2 * (cand.close - cand.low) > cand.high - cand.low
       \/ 2 * (cand.close - cand.low) = cand.high - cand.low /\ fpTie
    /\ cand.close > cand.open

\* round(x, 3) of a computed price given as x2 half-ticks.
Round3Half(x2) ==
    IF x2 % 2 = 0 THEN x2 \div 2
    ELSE IF fpTie THEN (x2 + 1) \div 2 ELSE (x2 - 1) \div 2

\* lines 173-174, 184-185, 200
EntryPrice(cand, zone_bottom) ==
    Round3Half(Max(2 * (cand.open + ENTRY_OFFSET), cand.close + zone_bottom))

Approved(cand, zone_bottom, why) ==
    [ok |-> TRUE, entry |-> EntryPrice(cand, zone_bottom), reason |-> why,
     confirm_candle |-> cand]

\* lines 164-185: the body of the loop for candle t (1-based) of the touched
\* branch; "" when neither test returns.
ConfirmAt(c5, t, zone_top) ==
    LET cand == c5[t]
        prev == c5[t - 1]
        engSum == IF t - 2 >= 1 THEN prev.volume + c5[t - 2].volume ELSE 2 * prev.volume
        wickSum == IF t - 2 >= 1 THEN prev.volume + c5[t - 2].volume ELSE 0
    IN  IF t - 1 >= 1 /\ Engulfing(prev, cand) /\ VolumeOK(cand, engSum)
        THEN "engulfing_after_second_touch"
        ELSE IF WickRejection(cand, zone_top) /\ VolumeOK(cand, wickSum)
        THEN "wick_rejection_after_second_touch"
        ELSE ""

\* lines 191-201: candle k (1-based) of last_6 confirms.
FallbackAt(last6, k) ==
    /\ k > 1
    /\ Engulfing(last6[k - 1], last6[k])
    /\ VolumeOK(last6[k],
                last6[k - 1].volume
                  + (IF k - 2 >= 1 THEN last6[k - 2].volume ELSE last6[k - 1].volume))

LastN(cs, n) == SubSeq(cs, Max(1, Len(cs) - n + 1), Len(cs))

\* lines 143-146
TouchCount(c5, zone_top, zone_bottom) ==
    LET w == LastN(c5, TOUCH_WINDOW)
    IN  Cardinality({i \in 1..Len(w) : Touches(w[i], zone_top, zone_bottom)})

detect_second_touch_and_confirmation(c15, c5, sweep_low, breakout_body_high) ==
    LET zone_top == breakout_body_high
        zone_bottom == sweep_low
        touches == TouchCount(c5, zone_top, zone_bottom)
    IN  IF touches >= RETEST_TOUCH_ALLOWANCE
        THEN LET touching == {i \in 1..Len(c5) : Touches(c5[i], zone_top, zone_bottom)}
             IN  IF touching = {} THEN NoSec("touch_count_but_no_index")
                 ELSE LET last == MaxOf(touching)
                          hits == {t \in (last + 1)..Min(last + 2, Len(c5)) :
                                     ConfirmAt(c5, t, zone_top) # ""}
                      IN  IF hits = {} THEN NoSec("no_confirm_after_second_touch")
                          ELSE LET t == MinOf(hits)
                               IN  Approved(c5[t], zone_bottom, ConfirmAt(c5, t, zone_top))
        ELSE LET last6 == LastN(c5, CONFIRM_WINDOW)
                 hits == {k \in 1..Len(last6) : FallbackAt(last6, k)}
             IN  IF hits = {} THEN NoSec("not_enough_touches_and_no_confirm")
                 ELSE Approved(last6[MinOf(hits)], zone_bottom,
                               "engulfing_no_second_touch_but_strong_confirm")

----------------------------------------------------------------------------
(* Trade plan builders (src/bot.py lines 215-270).                         *)

XAU_SL_PIPS == 20
\* XAU_PIP = 0.01, in ticks
XAU_PIP == 10
BTC_SL_USD == 350
RR == 4
SL_BUFFER_PIPS == 5

NoPlan == [side |-> "None", entry |-> 0, sl |-> 0, tp |-> 0, tp1 |-> 0,
           logic |-> "", confirm_candle |-> NoCandle]

\* round(x, 2) of a computed price in ticks: to the nearest 10 ticks.
Round2(x) ==
    LET r == x % 10
        lo == x - r
    IN  IF r < 5 THEN lo
        ELSE IF r > 5 THEN lo + 10
        ELSE IF fpTie THEN lo + 10 ELSE lo

\* round(x, 3) of a price in ticks.
Round3(x) == x

\* lines 220-245
build_xau_trade_plan(det, c15, c5) ==
    IF ~det.signal THEN [s |-> NoSec(""), p |-> NoPlan]
    ELSE LET sweep_low == det.sweep_candle.low
             breakout_body_high == det.confirm_candle.high
             s == detect_second_touch_and_confirmation(c15, c5, sweep_low, breakout_body_high)
         IN  IF ~s.ok THEN [s |-> s, p |-> NoPlan]
             ELSE LET entry == s.entry
                      \* line 232: the XAU_SL_PIPS term is multiplied by 0.0
                      sl_price == sweep_low - (SL_BUFFER_PIPS * XAU_PIP) - (XAU_SL_PIPS * XAU_PIP * 0)
                      rr_distance == entry - sl_price
                      tp == entry + rr_distance * RR
                      tp1 == entry + rr_distance * 1
                  IN  [s |-> s,
                       p |-> [side |-> "LONG", entry |-> Round3(entry), sl |-> Round3(sl_price),
                              tp |-> Round3(tp), tp1 |-> Round3(tp1),
                              logic |-> s.reason, confirm_candle |-> s.confirm_candle]]

\* lines 247-270
build_btc_trade_plan(det, c15, c5) ==
    IF ~det.signal THEN [s |-> NoSec(""), p |-> NoPlan]
    ELSE LET sweep_low == det.sweep_candle.low
             breakout_body_high == det.confirm_candle.high
             s == detect_second_touch_and_confirmation(c15, c5, sweep_low, breakout_body_high)
         IN  IF ~s.ok THEN [s |-> s, p |-> NoPlan]
             ELSE LET entry == s.entry
                      sl_price == sweep_low - BTC_SL_USD * TicksPerUnit
                      rr_distance == entry - sl_price
                      tp == entry + rr_distance * RR
                  IN  [s |-> s,
                       p |-> [side |-> "LONG", entry |-> Round2(entry), sl |-> Round2(sl_price),
                              tp |-> Round2(tp), tp1 |-> Round2(entry + rr_distance * 1),
                              logic |-> s.reason, confirm_candle |-> s.confirm_candle]]

----------------------------------------------------------------------------
(* The provider's answers, twelvedata_get_series and parse_candles          *)
(* (src/bot.py lines 65-99).                                               *)

SYMBOL_XAU == "XAU/USD"
SYMBOL_BTC == "BTC/USD"
Symbols == {SYMBOL_XAU, SYMBOL_BTC}

MIN_CANDLES_REQUIRED == 20
LOOKBACK_15M == 96

\* A raw candle whose fields do not convert (float() or fromisoformat raises).
BadRaw == [datetime |-> -2, open |-> 0, high |-> 0, low |-> 0, close |-> 0, volume |-> 0]
\* A raw volume that is missing, empty or 'null'.
NullVolume == -1

Reverse(q) == [i \in 1..Len(q) |-> q[Len(q) + 1 - i]]

\* An answer of the provider: the request raises (transport or HTTP error),
\* the JSON holds no "values", or it holds values, newest first.
Raises == [kind |-> "raise", values |-> <<>>]
NoValues == [kind |-> "novalues", values |-> <<>>]
Values(q) == [kind |-> "values", values |-> Reverse(q)]

\* lines 77-82: raises, or returns the values oldest first.
twelvedata_get_series(resp) ==
    IF resp.kind = "values"
    THEN [raised |-> FALSE, values |-> Reverse(resp.values)]
    ELSE [raised |-> TRUE, values |-> <<>>]

\* lines 86-99: raises on a field that does not convert; a missing volume
\* becomes 0.0.
parse_candles(raw) ==
    IF \E i \in 1..Len(raw) : raw[i] = BadRaw
    THEN [raised |-> TRUE, candles |-> <<>>]
    ELSE [raised |-> FALSE,
          candles |-> [i \in 1..Len(raw) |->
                         IF raw[i].volume = NullVolume
                         THEN [raw[i] EXCEPT !.volume = 0] ELSE raw[i]]]

\* lines 204-211
compute_liquidity_zones(cs) ==
    [recent_low |-> MinOf({cs[i].low : i \in 1..Len(cs)}),
     recent_high |-> MaxOf({cs[i].high : i \in 1..Len(cs)}),
     last_close |-> cs[Len(cs)].close]

----------------------------------------------------------------------------
(* get_and_analyze and format_plan_message (src/bot.py lines 274-321).     *)

\* get_and_analyze calls the detector with lookback=6 (line 284).
ANALYZE_LOOKBACK == 6

NoLiquidity == [recent_low |-> 0, recent_high |-> 0, last_close |-> 0]

\* The outcome of a call: an exception (raised), an error dict, or the result
\* dict.  trace is the set of stages the call ran; the result's "candles_15m",
\* "candles_5m" and "latest_5m", which nothing reads, are left out.
Outcome(rs, err, sym, det, liq, last, pl, tr) ==
    [raised |-> rs, error |-> err, symbol |-> sym, detection |-> det,
     liquidity |-> liq, latest_15m |-> last, plan |-> pl, trace |-> tr]

NoAnalysis == Outcome(FALSE, "", "", NoDetection(""), NoLiquidity, NoCandle, NoPlan, {})

\* A variant of the length test that skips only when both series are short.
NotEnoughCandles_both(c15, c5) ==
    Len(c15) < MIN_CANDLES_REQUIRED /\ Len(c5) < MIN_CANDLES_REQUIRED

\* line 282
NotEnoughCandles(c15, c5) ==
    Len(c15) < MIN_CANDLES_REQUIRED \/ Len(c5) < MIN_CANDLES_REQUIRED

\* line 297: "XAU" in symbol
IsXau(sym) == sym = SYMBOL_XAU

get_and_analyze(sym, r15, r5) ==
    LET f15 == twelvedata_get_series(r15)
        f5 == twelvedata_get_series(r5)
        p15 == parse_candles(f15.values)
        p5 == parse_candles(f5.values)
        c15 == p15.candles
        c5 == p5.candles
        det == detect_sweep_and_green(c15, ANALYZE_LOOKBACK)
        built == IF IsXau(sym) THEN build_xau_trade_plan(det, c15, c5)
                 ELSE build_btc_trade_plan(det, c15, c5)
    IN  IF f15.raised \/ f5.raised
        THEN Outcome(FALSE, "data_fetch_error", "", NoDetection(""), NoLiquidity,
                     NoCandle, NoPlan, {})
        ELSE IF p15.raised \/ p5.raised
        THEN Outcome(TRUE, "", "", NoDetection(""), NoLiquidity, NoCandle, NoPlan, {})
        ELSE IF NotEnoughCandles(c15, c5)
        THEN Outcome(FALSE, "not_enough_candles", "", NoDetection(""), NoLiquidity,
                     NoCandle, NoPlan, {})
        ELSE Outcome(FALSE, "", sym, det,
                     compute_liquidity_zones(LastN(c15, LOOKBACK_15M)),
                     c15[Len(c15)],
                     IF det.signal THEN built.p ELSE NoPlan,
                     IF det.signal THEN {"detect", "build"} ELSE {"detect"})

NoMessage == [kind |-> "none", symbol |-> "", text |-> "", plan |-> NoPlan,
              liquidity |-> NoLiquidity, close |-> 0, confirm_time |-> -1]

\* lines 303-321
format_plan_message(a) ==
    IF a.error # ""
    THEN [NoMessage EXCEPT !.kind = "error", !.text = a.error]
    ELSE IF a.plan = NoPlan
    THEN [NoMessage EXCEPT !.kind = "no_setup", !.symbol = a.symbol,
                           !.liquidity = a.liquidity, !.close = a.latest_15m.close]
    ELSE [NoMessage EXCEPT !.kind = "plan", !.symbol = a.symbol, !.plan = a.plan,
                           !.liquidity = a.liquidity,
                           !.confirm_time = a.plan.confirm_candle.datetime]

----------------------------------------------------------------------------
(* send_telegram_message (src/bot.py lines 44-63).                         *)

\* How a send ends: lines 46-49 without credentials ("unset"), else as
\* requests.post and raise_for_status end.
SinkOutcomes == {"unset", "ok", "error"}

\* A variant that lets the sink's exception out.
send_telegram_message_unguarded(outcome) ==
    IF outcome = "ok" THEN "json" ELSE "raise"

\* lines 57-63: the response's JSON, or None after any exception.
send_telegram_message(outcome) ==
    IF outcome = "ok" THEN "json" ELSE "None"

----------------------------------------------------------------------------
(* 5m candle shapes, placed around the retest zone of the 15m scenario     *)
(* (sweep low P15, confirm-candle high P15 + 80).                          *)

RedTouch(v)   == Mk(P15 - 450, P15 - 440, P15 - 500, P15 - 480, v)  \* red, low in the zone's slop
GreenDeep(v)  == Mk(P15 - 490, P15 - 394, P15 - 600, P15 - 394, v)  \* green, low under the slop
EngulfOnly(v) == Mk(P15 - 490, P15 + 2000, P15 - 600, P15 + 300, v) \* green, long upper wick
WickAbove(v)  == Mk(P15 + 200, P15 + 400, P15 + 100, P15 + 400, v)  \* green, low over the zone
WickHalf(v)   == Mk(P15 - 590, P15 - 200, P15 - 600, P15 - 400, v)  \* green, recovers exactly half
Doji(v)       == Mk(P15 + 3000, P15 + 3000, P15 + 3000, P15 + 3000, v)

Alphabet5 == {RedTouch(0), RedTouch(20), GreenDeep(0), EngulfOnly(20),
              WickAbove(20), WickHalf(20)}

\* Filler runs appended in one step: long enough to move earlier candles out
\* of the last TOUCH_WINDOW / CONFIRM_WINDOW candles.
PadLens == {CONFIRM_WINDOW - 2, TOUCH_WINDOW - 2}

Stamp(cs) == [i \in 1..Len(cs) |-> [cs[i] EXCEPT !.datetime = i]]

Repeat(c, n) == [i \in 1..n |-> c]

\* The 15m series of the plan scenario: candle 6 of 8 sweeps, candle 7 is green.
Scenario15 ==
    Stamp(<<GreenHigh, RedHigh, GreenHigh, GreenHigh, RedHigh, SweepGood, GreenHigh, RedHigh>>)

----------------------------------------------------------------------------
(* Provider scenarios: series of MIN_CANDLES_REQUIRED candles, or one     *)
(* fewer, ending in the 15m sweep and in 5m retests.                       *)

Filler15(n) == Repeat(GreenHigh, n)
Tail15 == <<GreenHigh, RedHigh, GreenHigh, GreenHigh, RedHigh, SweepGood, GreenHigh, RedHigh>>
Full15Signal == Stamp(Filler15(MIN_CANDLES_REQUIRED - Len(Tail15)) \o Tail15)
Short15Signal == Stamp(Filler15(MIN_CANDLES_REQUIRED - Len(Tail15) - 1) \o Tail15)
Full15Quiet == Stamp(Filler15(MIN_CANDLES_REQUIRED))
Malformed15 == [Full15Signal EXCEPT ![1] = BadRaw]

Tail5Good == <<RedTouch(0), RedTouch(0), EngulfOnly(20)>>
Tail5Low == <<RedTouch(0), RedTouch(0), GreenDeep(0)>>
Filler5(n) == Repeat(Doji(NullVolume), n)
Full5Good == Stamp(Filler5(MIN_CANDLES_REQUIRED - Len(Tail5Good)) \o Tail5Good)
Full5Low == Stamp(Filler5(MIN_CANDLES_REQUIRED - Len(Tail5Low)) \o Tail5Low)
Short5Good == Stamp(Filler5(MIN_CANDLES_REQUIRED - Len(Tail5Good) - 1) \o Tail5Good)
Full5Quiet == Stamp(Filler5(MIN_CANDLES_REQUIRED))
Malformed5 == [Full5Good EXCEPT ![2] = BadRaw]

Responses15 == {Raises, NoValues, Values(<<>>), Values(Malformed15), Values(Short15Signal),
                Values(Full15Signal), Values(Full15Quiet)}
Responses5 == {Raises, NoValues, Values(Malformed5), Values(Short5Good),
               Values(Full5Good), Values(Full5Low), Values(Full5Quiet)}

Jobs == {"pre", "post"}

JobsIdle ==
    /\ pc = [j \in Jobs |-> "idle"]
    /\ x_res = [j \in Jobs |-> NoAnalysis]
    /\ b_res = [j \in Jobs |-> NoAnalysis]
    /\ due = "pre"
    /\ fires = 0
    /\ alerts = <<>>
    /\ escaped = {}
    /\ handlerSendFailed = FALSE

AnalyzeIdle ==
    /\ symbol = ""
    /\ resp15 = NoValues
    /\ resp5 = NoValues
    /\ analysis = NoAnalysis
    /\ message = NoMessage

----------------------------------------------------------------------------
(* Specification of the detector: a 15m series is built candle by candle   *)
(* and detect_sweep_and_green is applied to it.                            *)

InitDetect ==
    /\ candles15 = <<>>
    /\ candles5 = <<>>
    /\ lookback = 0
    /\ detection = NoDetection("")
    /\ sec = NoSec("")
    /\ pad5 = 0
    /\ plan = NoPlan
    /\ fpTie \in BOOLEAN
    /\ AnalyzeIdle
    /\ JobsIdle

\* The provider appends the next 15m candle (oldest first, increasing time).
Append15 ==
    /\ Len(candles15) < MaxLen15
    /\ \E c \in Alphabet15 :
          candles15' = Append(candles15, [c EXCEPT !.datetime = Len(candles15) + 1])
    /\ lookback' = 0
    /\ detection' = NoDetection("")
    /\ UNCHANGED <<candles5, sec, pad5, plan, fpTie, analyzeVars, jobVars>>

Detect ==
    /\ \E lb \in Lookbacks :
          /\ lookback' = lb
          /\ detection' = detect_sweep_and_green(candles15, lb)
    /\ UNCHANGED <<candles15, candles5, sec, pad5, plan, fpTie, analyzeVars, jobVars>>

NextDetect == Append15 \/ Detect

SpecDetect == InitDetect /\ [][NextDetect]_vars

----------------------------------------------------------------------------
(* Specification of the builders: a 5m series is built candle by candle    *)
(* beside the 15m scenario, and a builder is applied.                      *)

InitPlan ==
    /\ candles15 = Scenario15
    /\ candles5 = <<>>
    /\ lookback = ANALYZE_LOOKBACK
    /\ detection = detect_sweep_and_green(Scenario15, ANALYZE_LOOKBACK)
    /\ sec = NoSec("")
    /\ pad5 = 0
    /\ plan = NoPlan
    /\ fpTie \in BOOLEAN
    /\ AnalyzeIdle
    /\ JobsIdle

Append5 ==
    /\ Len(candles5) - pad5 < MaxLen5
    /\ \E c \in Alphabet5 :
          candles5' = Append(candles5, [c EXCEPT !.datetime = Len(candles5) + 1])
    /\ sec' = NoSec("")
    /\ plan' = NoPlan
    /\ UNCHANGED <<candles15, lookback, detection, pad5, fpTie, analyzeVars, jobVars>>

Pad5 ==
    /\ pad5 = 0
    /\ \E n \in PadLens :
          /\ candles5' = Stamp(candles5 \o Repeat(Doji(0), n))
          /\ pad5' = n
    /\ sec' = NoSec("")
    /\ plan' = NoPlan
    /\ UNCHANGED <<candles15, lookback, detection, fpTie, analyzeVars, jobVars>>

BuildXau ==
    /\ LET r == build_xau_trade_plan(detection, candles15, candles5)
       IN  sec' = r.s /\ plan' = r.p
    /\ UNCHANGED <<candles15, candles5, lookback, detection, pad5, fpTie, analyzeVars, jobVars>>

BuildBtc ==
    /\ LET r == build_btc_trade_plan(detection, candles15, candles5)
       IN  sec' = r.s /\ plan' = r.p
    /\ UNCHANGED <<candles15, candles5, lookback, detection, pad5, fpTie, analyzeVars, jobVars>>

NextPlan == Append5 \/ Pad5 \/ BuildXau \/ BuildBtc

SpecPlan == InitPlan /\ [][NextPlan]_vars

----------------------------------------------------------------------------
(* Specification of one analysis: the provider answers the two requests of *)
(* a get_and_analyze call, and the outcome is formatted.                   *)

InitAnalyze ==
    /\ candles15 = <<>>
    /\ candles5 = <<>>
    /\ lookback = 0
    /\ detection = NoDetection("")
    /\ sec = NoSec("")
    /\ pad5 = 0
    /\ plan = NoPlan
    /\ fpTie = FALSE
    /\ AnalyzeIdle
    /\ JobsIdle

Analyze ==
    /\ \E sym \in Symbols, r15 \in Responses15, r5 \in Responses5 :
          /\ symbol' = sym
          /\ resp15' = r15
          /\ resp5' = r5
          /\ analysis' = get_and_analyze(sym, r15, r5)
    /\ message' = NoMessage
    /\ UNCHANGED <<dataVars, fpTie, jobVars>>

\* The caller formats the outcome (lines 332-333), unless the call raised.
Format ==
    /\ symbol # ""
    /\ ~analysis.raised
    /\ message = NoMessage
    /\ message' = format_plan_message(analysis)
    /\ UNCHANGED <<dataVars, fpTie, symbol, resp15, resp5, analysis, jobVars>>

NextAnalyze == Analyze \/ Format

SpecAnalyze == InitAnalyze /\ [][NextAnalyze]_vars

----------------------------------------------------------------------------
(* The scheduled jobs job_pre_alert and job_post_open (src/bot.py lines    *)
(* 325-347) under the scheduler of start_scheduler (lines 349-362).        *)
(*                                                                         *)
(* BackgroundScheduler runs each job on a worker thread of its pool when   *)
(* the job's cron trigger fires (11:55 and 12:05 UTC, alternating), and    *)
(* skips a firing while an instance of the same job still runs.  A job is  *)
(* a sequence of blocking network calls, so it is modelled step by step.   *)

Other(j) == IF j = "pre" THEN "post" ELSE "pre"

InitJobs ==
    /\ candles15 = <<>>
    /\ candles5 = <<>>
    /\ lookback = 0
    /\ detection = NoDetection("")
    /\ sec = NoSec("")
    /\ pad5 = 0
    /\ plan = NoPlan
    /\ fpTie = FALSE
    /\ AnalyzeIdle
    /\ JobsIdle

\* lines 354-356: the trigger of the due job fires and a worker starts it.
FireStart ==
    /\ fires < MaxFires
    /\ pc[due] = "idle"
    /\ pc' = [pc EXCEPT ![due] = "header"]
    /\ due' = Other(due)
    /\ fires' = fires + 1
    /\ UNCHANGED <<dataVars, fpTie, analyzeVars, x_res, b_res, alerts, escaped, handlerSendFailed>>

\* The trigger fires while the job's previous run has not returned.
FireSkip ==
    /\ fires < MaxFires
    /\ pc[due] # "idle"
    /\ due' = Other(due)
    /\ fires' = fires + 1
    /\ UNCHANGED <<dataVars, fpTie, analyzeVars, pc, x_res, b_res, alerts, escaped, handlerSendFailed>>

\* lines 326-328, 338-340: the announcement, sent outside the try block.
Header(j) ==
    /\ pc[j] = "header"
    /\ \E o \in SinkOutcomes :
          IF send_telegram_message(o) = "raise"
          THEN /\ pc' = [pc EXCEPT ![j] = "idle"]
               /\ escaped' = escaped \cup {j}
          ELSE /\ pc' = [pc EXCEPT ![j] = "analyze_x"]
               /\ UNCHANGED escaped
    /\ UNCHANGED <<dataVars, fpTie, analyzeVars, x_res, b_res, due, fires, alerts, handlerSendFailed>>

\* lines 330, 342: x = get_and_analyze(SYMBOL_XAU)
AnalyzeX(j) ==
    /\ pc[j] = "analyze_x"
    /\ \E r15 \in Responses15, r5 \in Responses5 :
          LET a == get_and_analyze(SYMBOL_XAU, r15, r5)
          IN  IF a.raised
              THEN /\ pc' = [pc EXCEPT ![j] = "except"]
                   /\ UNCHANGED x_res
              ELSE /\ pc' = [pc EXCEPT ![j] = "analyze_b"]
                   /\ x_res' = [x_res EXCEPT ![j] = a]
    /\ UNCHANGED <<dataVars, fpTie, analyzeVars, b_res, due, fires, alerts, escaped, handlerSendFailed>>

\* lines 331, 343: b = get_and_analyze(SYMBOL_BTC)
AnalyzeB(j) ==
    /\ pc[j] = "analyze_b"
    /\ \E r15 \in Responses15, r5 \in Responses5 :
          LET a == get_and_analyze(SYMBOL_BTC, r15, r5)
          IN  IF a.raised
              THEN /\ pc' = [pc EXCEPT ![j] = "except"]
                   /\ x_res' = [x_res EXCEPT ![j] = NoAnalysis]
                   /\ UNCHANGED b_res
              ELSE /\ pc' = [pc EXCEPT ![j] = "send_x"]
                   /\ b_res' = [b_res EXCEPT ![j] = a]
                   /\ UNCHANGED x_res
    /\ UNCHANGED <<dataVars, fpTie, analyzeVars, due, fires, alerts, escaped, handlerSendFailed>>

\* The sink is handed message m made of outcome a: a plan message counts as
\* an alert for (symbol, time of the sweep candle).
Handed(a, m) ==
    IF m.kind # "plan" THEN alerts
    ELSE LET id == <<a.symbol, a.detection.sweep_candle.datetime>>
         IN  IF id \in DOMAIN alerts
             THEN [alerts EXCEPT ![id] = @ + 1]
             ELSE alerts @@ (id :> 1)

\* lines 332, 344: send_telegram_message(format_plan_message(x))
SendX(j) ==
    /\ pc[j] = "send_x"
    /\ alerts' = Handed(x_res[j], format_plan_message(x_res[j]))
    /\ \E o \in SinkOutcomes :
          IF send_telegram_message(o) = "raise"
          THEN /\ pc' = [pc EXCEPT ![j] = "except"]
               /\ b_res' = [b_res EXCEPT ![j] = NoAnalysis]
          ELSE /\ pc' = [pc EXCEPT ![j] = "send_b"]
               /\ UNCHANGED b_res
    /\ x_res' = [x_res EXCEPT ![j] = NoAnalysis]
    /\ UNCHANGED <<dataVars, fpTie, analyzeVars, due, fires, escaped, handlerSendFailed>>

\* lines 333, 345: send_telegram_message(format_plan_message(b)); the job returns.
SendB(j) ==
    /\ pc[j] = "send_b"
    /\ alerts' = Handed(b_res[j], format_plan_message(b_res[j]))
    /\ \E o \in SinkOutcomes :
          IF send_telegram_message(o) = "raise"
          THEN pc' = [pc EXCEPT ![j] = "except"]
          ELSE pc' = [pc EXCEPT ![j] = "idle"]
    /\ b_res' = [b_res EXCEPT ![j] = NoAnalysis]
    /\ UNCHANGED <<dataVars, fpTie, analyzeVars, x_res, due, fires, escaped, handlerSendFailed>>

\* lines 334-335, 346-347: the except handler sends the error text; the job
\* returns.
Except(j) ==
    /\ pc[j] = "except"
    /\ \E o \in SinkOutcomes :
          /\ escaped' = IF send_telegram_message(o) = "raise"
                        THEN escaped \cup {j} ELSE escaped
          /\ handlerSendFailed' = (handlerSendFailed \/ o = "error")
    /\ pc' = [pc EXCEPT ![j] = "idle"]
    /\ UNCHANGED <<dataVars, fpTie, analyzeVars, x_res, b_res, due, fires, alerts>>

JobStep(j) ==
    Header(j) \/ AnalyzeX(j) \/ AnalyzeB(j) \/ SendX(j) \/ SendB(j) \/ Except(j)

Next == FireStart \/ FireSkip \/ \E j \in Jobs : JobStep(j)

Spec == InitJobs /\ [][Next]_vars

----------------------------------------------------------------------------
(* Properties of the detector, stated on the state after detect_sweep_and_green *)
(* has been applied (lookback > 0).                                        *)

DetectActed == lookback > 0
DetectWindow == Window(candles15, lookback)
Interior == 2..(Len(DetectWindow) - 1)

\* The lower-wick ratio as the specification defines it:
\* (min(open, close) - low) / (high - low) > 0.35, for a candle with a range.
SpecWickOver(c) ==
    /\ c.high > c.low
    /\ (Min(c.open, c.close) - c.low) * 100 > 35 * (c.high - c.low)

SpecQualifies(w, i) ==
    /\ LocalLow(w, i)
    /\ SpecWickOver(w[i])
    /\ w[i + 1].close > w[i + 1].open

\* C2: on a series of at least lookback+2 candles the detector signals if and
\* only if some interior candle of the trailing window is a strict local low
\* with lower-wick ratio (min(open,close)-low)/(high-low) above 0.35 followed
\* by a green candle; the sweep reported is the earliest such candle and the
\* confirm candle the one after it.
C2_SignalIffSpecSweep ==
    (DetectActed /\ Len(candles15) >= lookback + 2) =>
        LET w == DetectWindow
            hits == {i \in Interior : SpecQualifies(w, i)}
        IN  /\ detection.signal <=> hits # {}
            /\ detection.signal /\ hits # {} =>
                  /\ detection.sweep_candle = w[MinOf(hits)]
                  /\ detection.confirm_candle = w[MinOf(hits) + 1]

\* C9: a zero-range candle (high = low) is never the reported sweep candle,
\* and it does not end the scan: whenever a candle with a range qualifies in
\* the window, the detector signals on a candle with a range.
C9_ZeroRangeSkipped ==
    (DetectActed /\ Len(candles15) >= lookback + 2) =>
        LET w == DetectWindow
        IN  /\ \A i \in Interior :
                  w[i].high = w[i].low =>
                      ~(detection.signal /\ detection.sweep_candle = w[i])
            /\ (\E i \in Interior : w[i].high # w[i].low /\ Qualifies(w, i)) =>
                  /\ detection.signal
                  /\ detection.sweep_candle.high # detection.sweep_candle.low
            /\ detection.reason \in {"", "no_sweep"}

\* A zero-range strict local low sits in the window before the candle that
\* is reported as the sweep.
C9_Witness ==
    /\ DetectActed
    /\ detection.signal
    /\ \E i \in Interior :
          /\ DetectWindow[i].high = DetectWindow[i].low
          /\ LocalLow(DetectWindow, i)
          /\ DetectWindow[i].datetime < detection.sweep_candle.datetime

\* C10: when the detector signals on n candles with lookback L, the reported
\* index k satisfies n-L <= k <= n-2, candles[k] is the reported sweep candle
\* and candles[k+1] the reported confirm candle (k is 0-based); a series
\* shorter than L+2 candles yields no signal.
C10_IndexInWindow ==
    DetectActed =>
        LET n == Len(candles15)
            k == detection.sweep_idx_in_15m
        IN  /\ n < lookback + 2 => ~detection.signal
            /\ detection.signal =>
                  /\ n - lookback <= k
                  /\ k <= n - 2
                  /\ candles15[k + 1] = detection.sweep_candle
                  /\ candles15[k + 2] = detection.confirm_candle

\* The oldest candle the window allows is reported, on a series longer than
\* the window.
C10_Witness ==
    /\ DetectActed
    /\ detection.signal
    /\ lookback >= 3
    /\ Len(candles15) > lookback + 2
    /\ detection.sweep_idx_in_15m = Len(candles15) - lookback

----------------------------------------------------------------------------
(* Properties of the confirmation and of the builders, stated on the state *)
(* after a builder has run on a signalled detection.                       *)

BuilderActed == sec.reason # ""
ZoneBottom == detection.sweep_candle.low
ZoneTop == detection.confirm_candle.high

TouchIdx(cs) == {i \in 1..Len(cs) : Touches(cs[i], ZoneTop, ZoneBottom)}

\* The volume check against the two candles preceding candle t of cs.
VolTwoBefore(cs, t) ==
    LET sum2 == cs[t - 1].volume + cs[t - 2].volume
    IN  sum2 = 0 \/ 2 * cs[t].volume >= sum2 * CONFIRM_VOLUME_MULT

\* Wick rejection as the specification words it: close - low at least half
\* of high - low, and close above open.
SpecWick(c) == 2 * (c.close - c.low) >= c.high - c.low /\ c.close > c.open

\* The decision as the claim states it, on a series in which every candle it
\* speaks of has two predecessors.
ClaimedApproval(cs) ==
    LET touching == TouchIdx(cs)
    IN  IF Cardinality(touching) >= RETEST_TOUCH_ALLOWANCE
        THEN LET last == MaxOf(touching)
             IN  \E t \in (last + 1)..Min(last + 2, Len(cs)) :
                    /\ Engulfing(cs[t - 1], cs[t]) \/ SpecWick(cs[t])
                    /\ VolTwoBefore(cs, t)
        ELSE \E t \in (Len(cs) - CONFIRM_WINDOW + 1)..Len(cs) :
                    /\ Engulfing(cs[t - 1], cs[t])
                    /\ VolTwoBefore(cs, t)

WickHalfTest(c, strict) ==
    /\ IF strict THEN 2 * (c.close - c.low) > c.high - c.low
                 ELSE 2 * (c.close - c.low) >= c.high - c.low
    /\ c.close > c.open

\* The decision as amended: touches are counted among the last 60 candles;
\* the wick rejection also needs the candle's low at or below the zone top;
\* the fallback looks at the last 6 candles but the first of them, and takes
\* the volume average inside the last 6.
AmendedApproval(cs, strict) ==
    LET w == LastN(cs, TOUCH_WINDOW)
        touches == Cardinality({i \in 1..Len(w) : Touches(w[i], ZoneTop, ZoneBottom)})
    IN  IF touches >= RETEST_TOUCH_ALLOWANCE
        THEN LET last == MaxOf(TouchIdx(cs))
             IN  \E t \in (last + 1)..Min(last + 2, Len(cs)) :
                    /\ \/ Engulfing(cs[t - 1], cs[t])
                       \/ WickHalfTest(cs[t], strict) /\ cs[t].low <= ZoneTop
                    /\ VolTwoBefore(cs, t)
        ELSE LET l6 == LastN(cs, CONFIRM_WINDOW)
             IN  \E k \in 2..Len(l6) :
                    /\ Engulfing(l6[k - 1], l6[k])
                    /\ IF k >= 3 THEN VolTwoBefore(l6, k)
                       ELSE l6[1].volume = 0
                            \/ l6[2].volume >= l6[1].volume * CONFIRM_VOLUME_MULT

C1_PlanOrdered ==
    plan.side = "LONG" => plan.sl < plan.entry /\ plan.entry < plan.tp

\* C4: every plan carries tp = entry + (entry - sl) * RR and
\* tp1 = entry + (entry - sl) * 1.0 on its own reported values.
C4_TargetsExact ==
    plan.side = "LONG" =>
        /\ plan.tp = plan.entry + (plan.entry - plan.sl) * RR
        /\ plan.tp1 = plan.entry + (plan.entry - plan.sl) * 1

----------------------------------------------------------------------------
(* Properties of get_and_analyze.                                          *)

AnalyzeActed == symbol # ""
FetchFails(r) == r.kind # "values"
ParsesShort(r) ==
    /\ r.kind = "values"
    /\ \A i \in 1..Len(r.values) : r.values[i] # BadRaw
    /\ Len(r.values) < MIN_CANDLES_REQUIRED
ParsesAll(r) ==
    /\ r.kind = "values"
    /\ \A i \in 1..Len(r.values) : r.values[i] # BadRaw

\* C6: if the fetch of either series fails, or either parsed series has
\* fewer than MIN_CANDLES_REQUIRED candles, the call runs neither the detector
\* nor a builder, returns an error outcome without detection or plan, and the
\* message made of it is the error text, not a plan.
C6_SkippedOnBadData ==
    (/\ AnalyzeActed
     /\ \/ FetchFails(resp15) \/ FetchFails(resp5)
        \/ ParsesAll(resp15) /\ ParsesAll(resp5)
             /\ (ParsesShort(resp15) \/ ParsesShort(resp5))) =>
        /\ ~analysis.raised
        /\ analysis.error \in {"data_fetch_error", "not_enough_candles"}
        /\ analysis.trace = {}
        /\ ~analysis.detection.signal
        /\ analysis.plan = NoPlan
        /\ message.kind \in {"none", "error"}

\* Only the 5m request fails, or only the 5m series is short, while the 15m
\* series holds a sweep; the outcome has been formatted.
C6_Witness ==
    /\ AnalyzeActed
    /\ resp15 = Values(Full15Signal)
    /\ resp5 = Values(Short5Good)
    /\ analysis.error = "not_enough_candles"
    /\ message.kind = "error"

----------------------------------------------------------------------------
(* Properties of the scheduled jobs.                                       *)

\* C5: across any sequence of passes a plan alert for one (symbol, sweep
\* candle time) is handed to the sink at most once.
C5_AlertedOnce == \A id \in DOMAIN alerts : alerts[id] <= 1

\* C7: no exception escapes a run of job_pre_alert or job_post_open, whatever
\* the provider and the sink do: every started run can take its next step and
\* none has let an exception out.
C7_NoEscape ==
    /\ escaped = {}
    /\ \A j \in Jobs : pc[j] # "idle" => ENABLED JobStep(j)

\* A run went through its except handler, the handler's own send failed, and
\* the job is back to idle with every trigger fired.
C7_Witness ==
    /\ handlerSendFailed
    /\ fires = MaxFires
    /\ \A j \in Jobs : pc[j] = "idle"

\* C8: at no time are two passes executing concurrently.
C8_Sequential == ~(pc["pre"] # "idle" /\ pc["post"] # "idle")

====
